---- MODULE Spec2Model ----
(***************************************************************************)
(* Model of the Abode API client's connection layer                        *)
(* (custom_components/abode_security/abode/client.py): session lifecycle,  *)
(* login, the retrying request executor, the background session monitor    *)
(* and the CMS settings cache.                                             *)
(*                                                                         *)
(* Concurrency is asyncio's: one task runs at a time and keeps the event   *)
(* loop until it suspends at an await that really waits (an HTTP call, a   *)
(* sleep, a session close, a contended lock).  `running` names the task    *)
(* that holds the loop; every coroutine is a frame on its task's stack.    *)
(* Time is kept as relative clocks (ages and remaining sleep times) that   *)
(* the Tick action advances.                                               *)
(*                                                                         *)
(* Record constructors list their fields in the order in which the field   *)
(* names first appear in the module, which is the order TLC keeps them in: *)
(* normalising a record then never moves a field, whichever worker does it.*)
(***************************************************************************)
EXTENDS Integers, Sequences, FiniteSets, TLC

VARIABLES
    client,     \* the Client object's fields
    open,       \* aiohttp.ClientSession objects that are not closed
    nsess,      \* number of ClientSession objects created so far
    stack,      \* per task: the stack of coroutine frames
    ret,        \* per task: value returned / exception raised by the last frame
    running,    \* the task that holds the event loop, or "none"
    cancelled,  \* tasks with a pending Task.cancel()
    timer,      \* per task: remaining seconds of its asyncio.sleep
    op,         \* per app task: the client method it called last
    result,     \* per app task: outcome of its last top-level call
    journal,    \* history of the request attempts (for the properties only)
    server,     \* the Abode service: the account's settings and what it answers
    nmon,       \* number of monitor tasks created so far
    calls,      \* top-level calls made by the application so far
    faults,     \* faults injected by the environment so far
    ticks,      \* Tick steps taken so far
    bound       \* how many calls, faults, ticks and events the run may have

vars == <<client, open, nsess, stack, ret, running, cancelled, timer, op,
          result, journal, server, nmon, calls, faults, ticks, bound>>

(***************************************************************************)
(* Bounds of the model.                                                    *)
(***************************************************************************)
MaxFaults == 5
MaxTicks == 3
MaxCalls == 2
MaxEvents == 6

\* what is left of the budget of calls, faults and ticks together
Budget == calls + faults + ticks < bound.events
Bound(c, f, k, e) == [calls |-> c, faults |-> f, ticks |-> k, events |-> e]

(***************************************************************************)
(* Program constants.                                                      *)
(***************************************************************************)
SessionMaxAge == 1800
MonitorInterval == 60
HttpTotalTimeout == 30
MaxAttempts == 3
FailureThreshold == 3
RateLimitFloor == 30
RateLimitCap == 300
RetryDelaySeed == 1
RetryDelayCap == 30
DefaultTtl == 300

None == 0
NoTime == -1
NoInt == -1

AppTasks == {"a", "b"}
MonIds == <<"m1", "m2">>
MonTasks == {MonIds[i] : i \in 1..Len(MonIds)}
Tasks == AppTasks \cup MonTasks

Max(x, y) == IF x >= y THEN x ELSE y
Min(x, y) == IF x <= y THEN x ELSE y

(***************************************************************************)
(* Exceptions.  client.py imports the abode Exception under the name       *)
(* Exception, so `except Exception` there catches only the abode classes.  *)
(*   "RateLimit"   RateLimitException (an AuthenticationException)          *)
(*   "Auth"        AuthenticationException                                  *)
(*   "Abode"       abode Exception                                          *)
(*   "Timeout"     builtin TimeoutError                                     *)
(*   "ClientError" aiohttp.ClientError                                      *)
(*   "Other"       any other builtin error (RuntimeError, ValueError, ...)  *)
(*   "Cancelled"   asyncio.CancelledError                                   *)
(***************************************************************************)
AbodeExceptions == {"RateLimit", "Auth", "Abode"}
ConnectionErrors == {"Timeout", "ClientError"}

NoRet == [k |-> "none", e |-> "", v |-> None]
Val(v) == [k |-> "val", e |-> "", v |-> v]
Done == Val(None)
\* v: what the exception holds of the response that caused it: the status
\* in the arguments of an AuthenticationException, retry_after and the header
\* for a RateLimitException; NoInt when its arguments are a constant of
\* helpers.errors
Exc(e, v) == [k |-> "exc", e |-> e, v |-> v]

Top(t) == stack[t][Len(stack[t])]
Pop(s) == SubSeq(s, 1, Len(s) - 1)
WithTop(s, f) == [s EXCEPT ![Len(s)] = f]
At(t, p, at) == stack[t] # <<>> /\ Top(t).proc = p /\ Top(t).pc = at

\* pcs at which a coroutine is suspended in the event loop
Suspended(t) ==
    /\ stack[t] # <<>>
    /\ Top(t).pc \in {"post", "oauth", "close", "sleep", "errsleep", "http", "rl_sleep",
                      "retry_sleep", "lock"}

\* the synchronous continuation of the task that holds the loop
Ready(t) == running = t /\ ret[t].k = "none"
\* a call made by the top frame has just returned a value
Returned(t) == running = t /\ ret[t].k = "val"
\* the loop is idle and task t is resumed by the completion of its await
Resumable(t) == running = "none" /\ Suspended(t) /\ t \notin cancelled

(***************************************************************************)
(* Python dicts of settings: the sequence of the items in insertion order, *)
(* with distinct keys.                                                     *)
(***************************************************************************)
Entry(key, value) == [key |-> key, value |-> value]
EmptyDict == <<>>
HasKey(d, k) == \E i \in 1..Len(d) : d[i].key = k
\* d[k] = v
Put(d, k, v) ==
    IF HasKey(d, k)
    THEN [i \in 1..Len(d) |-> IF d[i].key = k THEN Entry(k, v) ELSE d[i]]
    ELSE Append(d, Entry(k, v))
RECURSIVE Update(_, _)
\* an update that fills an empty dict only
UpdateEmpty(d, e) == IF d = <<>> THEN e ELSE d
\* d.update(e)
Update(d, e) ==
    IF e = <<>> THEN d ELSE Put(Update(d, SubSeq(e, 1, Len(e) - 1)), e[Len(e)].key, e[Len(e)].value)
RECURSIVE SetDefaults(_, _)
\* for key, value in e.items(): d.setdefault(key, value)
SetDefaults(d, e) ==
    IF e = <<>> THEN d
    ELSE LET r == SetDefaults(d, SubSeq(e, 1, Len(e) - 1))
             x == e[Len(e)]
         IN  IF HasKey(r, x.key) THEN r ELSE Append(r, x)

\* the body of a JSON answer: the settings it carries
Document(cms) == [cms |-> cms]
NoData == Document(EmptyDict)

(***************************************************************************)
(* The Abode service.  plan: the account has CMS settings; test_mode: the  *)
(* value of its testModeActive setting; faults: the answers other than the *)
(* nominal ones that the service and the network give.                     *)
(***************************************************************************)
AllFaults == {"auth", "ratelimit", "timeout", "clienterror", "empty", "short",
              "html", "notfound", "error"}
Account(plan, faulty) ==
    [faults |-> faulty, plan |-> plan, test_mode |-> FALSE]
\* the settings document of the account
Settings(srv) ==
    IF srv.plan THEN <<Entry("testModeActive", srv.test_mode)>> ELSE EmptyDict
\* a POST of settings is applied
Written(srv, data) ==
    [srv EXCEPT !.test_mode = data[1].value]
\* the panel object of a login answer
Panel(srv) == [cms |-> Settings(srv), present |-> TRUE]

(***************************************************************************)
(* Client.__init__                                                         *)
(***************************************************************************)
\* _cms_cache: None or a dict; _cms_lock: an asyncio.Lock with its queue of
\* waiting tasks
NoCache == [cms |-> EmptyDict, present |-> FALSE]
Cache(cms) == [cms |-> cms, present |-> TRUE]

NewClient ==
    [session |-> None, token |-> None, oauth_token |-> None,
     initialized |-> FALSE,
     session_monitor_running |-> FALSE, session_monitor_task |-> "none",
     consecutive_failures |-> 0, session_recreate_count |-> 0,
     session_age |-> NoTime,
     panel |-> [cms |-> EmptyDict, present |-> FALSE],
     cms_cache |-> NoCache, cms_cache_age |-> NoTime,
     cms_lock |-> [locked |-> FALSE, waiters |-> <<>>],
     test_mode_supported |-> TRUE]

\* streak: connection-level failures of request attempts since the last
\* successful response; recreated: _recreate_session was invoked since the
\* streak reached the threshold
\* written: a settings write has returned successfully and get_cms_settings
\* was not called since
\* error_status: the status of the response to the last request attempt when it
\* was 400 or more, since the attempt began
\* not_found: the responses of status 404 since the last call of the
\* application began
NoJournal == [streak |-> 0, recreated |-> FALSE, written |-> FALSE,
              error_status |-> NoInt, not_found |-> 0]
\* name: the method called; after_write: it is the first get_cms_settings
\* call after a settings write returned
NoOp == [name |-> "none", after_write |-> FALSE]

Init ==
    /\ client = NewClient
    /\ open = {}
    /\ nsess = 0
    /\ stack = [t \in Tasks |-> <<>>]
    /\ ret = [t \in Tasks |-> NoRet]
    /\ running = "none"
    /\ cancelled = {}
    /\ timer = [t \in Tasks |-> 0]
    /\ op = [t \in AppTasks |-> NoOp]
    /\ result = [t \in AppTasks |-> NoRet]
    /\ journal = NoJournal
    /\ server = Account(TRUE, AllFaults)
    /\ nmon = 0
    /\ calls = 0
    /\ faults = 0
    /\ ticks = 0
    /\ bound = Bound(MaxCalls, MaxFaults, MaxTicks, MaxEvents)

(***************************************************************************)
(* Frames                                                                  *)
(***************************************************************************)
Frame(p, pc) == [proc |-> p, pc |-> pc]
HttpFrame(p, pc, sess) == [proc |-> p, pc |-> pc, sess |-> sess]

\* the task goes on synchronously with a new stack
Go(t, s) == /\ stack' = [stack EXCEPT ![t] = s]
            /\ ret' = [ret EXCEPT ![t] = NoRet]
            /\ running' = t
\* the task suspends at an await
Suspend(t, s) == /\ stack' = [stack EXCEPT ![t] = s]
                 /\ ret' = [ret EXCEPT ![t] = NoRet]
                 /\ running' = "none"
\* the top frame ends: its caller sees r
End(t, r) == /\ stack' = [stack EXCEPT ![t] = Pop(@)]
             /\ ret' = [ret EXCEPT ![t] = r]
             /\ running' = t
\* the top frame calls coroutine f
Call(t, pc, f) == Go(t, Append(WithTop(stack[t], [Top(t) EXCEPT !.pc = pc]), f))

\* session.post / session.get on the client's current session: what the
\* call does before it waits (AttributeError on None, aiohttp's
\* RuntimeError("Session is closed") on a closed session)
CanIssue == client.session # None /\ client.session \in open

(***************************************************************************)
(* Time.  The clocks are relative: the age of the session and the          *)
(* remaining time of each sleep.  An HTTP call in flight ends within the   *)
(* session's total timeout (ClientTimeout(total=30), client.py 138, 285).  *)
(* A sleep of the request executor ends when its time has passed; the      *)
(* monitor's 60 s sleep is waited out by Tick steps.                       *)
(***************************************************************************)
TickSteps == {HttpTotalTimeout, SessionMaxAge}
InFlight(t) == stack[t] # <<>> /\ Top(t).pc \in {"post", "oauth", "http"}
Aged(a, d, cap) == IF a = NoTime THEN NoTime ELSE Min(a + d, cap)

CanElapse(d) == (\E t \in Tasks : InFlight(t)) => d <= HttpTotalTimeout
\* sleeps that end on time
Sleeping(t) == stack[t] # <<>> /\ Top(t).pc \in {"rl_sleep", "retry_sleep", "errsleep"}
\* the client's clocks d seconds later
Elapsed(c, d) == [c EXCEPT !.session_age = Aged(@, d, SessionMaxAge + 1),
                          !.cms_cache_age = Aged(@, d, DefaultTtl)]
\* d seconds pass
Elapse(d) == timer' = [t \in Tasks |-> Max(0, timer[t] - d)]

Tick(d) ==
    /\ running = "none" /\ ticks < bound.ticks /\ Budget
    /\ CanElapse(d)
    /\ \A t \in Tasks : Sleeping(t) => d <= timer[t]
    /\ ticks' = ticks + 1
    /\ client' = Elapsed(client, d)
    /\ Elapse(d)
    /\ UNCHANGED <<open, nsess, stack, ret, running, cancelled, op, result, journal, server, nmon,
                   calls, faults, bound>>

(***************************************************************************)
(* _start_session_monitor (client.py 306-319)                              *)
(***************************************************************************)
StartsMonitor(c) == ~c.session_monitor_running

(***************************************************************************)
(* _async_initialize (client.py 132-154); auto_login, get_devices and      *)
(* get_automations are False as the integration constructs the client.     *)
(***************************************************************************)
\* an initialization without the test of line 134
async_initialize_again(t) ==
    /\ Ready(t) /\ At(t, "_async_initialize", "start")
    /\ LET sid == nsess + 1
           m == MonIds[Min(nmon + 1, Len(MonIds))]
           start == StartsMonitor(client) /\ nmon < Len(MonIds)
       IN  /\ client' = [client EXCEPT
                  !.session = sid, !.session_age = 0,
                  !.initialized = TRUE,
                  !.session_monitor_running = TRUE,
                  !.session_monitor_task = IF start THEN m ELSE @]
           /\ open' = open \cup {sid}
           /\ nsess' = sid
           /\ nmon' = IF start THEN nmon + 1 ELSE nmon
           /\ stack' = [stack EXCEPT
                  ![t] = Pop(@),
                  ![m] = IF start THEN <<Frame("monitor", "new")>> ELSE @]
           /\ UNCHANGED timer
    /\ ret' = [ret EXCEPT ![t] = Val(None)]
    /\ running' = t
    /\ UNCHANGED <<cancelled, op, result, journal, server, calls, faults, ticks, bound>>
async_initialize(t) ==
    /\ Ready(t) /\ At(t, "_async_initialize", "start")
    /\ IF client.initialized
       THEN /\ UNCHANGED <<client, open, nsess, nmon, timer>>
            /\ stack' = [stack EXCEPT ![t] = Pop(@)]
       ELSE LET sid == nsess + 1
                m == MonIds[nmon + 1]
                start == StartsMonitor(client)
            IN  /\ client' = [client EXCEPT
                       !.session = sid, !.session_age = 0,
                       !.initialized = TRUE,
                       !.session_monitor_running = TRUE,
                       !.session_monitor_task = IF start THEN m ELSE @]
                /\ open' = open \cup {sid}
                /\ nsess' = sid
                /\ nmon' = IF start THEN nmon + 1 ELSE nmon
                /\ stack' = [stack EXCEPT
                       ![t] = Pop(@),
                       ![m] = IF start THEN <<Frame("monitor", "new")>> ELSE @]
                /\ UNCHANGED timer
    /\ ret' = [ret EXCEPT ![t] = Val(None)]
    /\ running' = t
    /\ UNCHANGED <<cancelled, op, result, journal, server, calls, faults, ticks, bound>>

(***************************************************************************)
(* login (client.py 175-243)                                               *)
(***************************************************************************)
login_start(t) ==
    /\ Ready(t) /\ At(t, "login", "start")
    /\ Call(t, "inited", Frame("_async_initialize", "start"))
    /\ UNCHANGED <<client, open, nsess, cancelled, timer, op, result, journal, server, nmon,
                   calls, faults, ticks, bound>>

\* self._token = None, then the POST to the login URL
login_post(t) ==
    /\ Returned(t) /\ At(t, "login", "inited")
    /\ client' = [client EXCEPT !.token = None]
    /\ IF CanIssue
       THEN Suspend(t, WithTop(stack[t], HttpFrame("login", "post", client.session)))
       ELSE End(t, Exc("Other", NoInt))
    /\ UNCHANGED <<open, nsess, cancelled, timer, op, result, journal, server, nmon, calls, faults, ticks, bound>>

(***************************************************************************)
(* The Retry-After header of a 429 response and its parsing                *)
(* (exceptions.py 27-29, client.py 1112-1117): present or not, and when    *)
(* present a string of characters; str.isdigit() and int().                *)
(***************************************************************************)
Absent == [present |-> FALSE, text |-> <<>>]
Header(txt) == [present |-> TRUE, text |-> txt]
RetryAfterHeaders ==
    {Absent, Header(<<"0">>), Header(<<"5">>), Header(<<"4", "5">>), Header(<<"x">>)}

DigitValue(ch) ==
    CASE ch = "0" -> 0 [] ch = "1" -> 1 [] ch = "2" -> 2 [] ch = "3" -> 3
      [] ch = "4" -> 4 [] ch = "5" -> 5 [] ch = "6" -> 6 [] ch = "7" -> 7
      [] ch = "8" -> 8 [] ch = "9" -> 9 [] OTHER -> NoInt
isdigit(txt) == txt # <<>> /\ \A i \in 1..Len(txt) : DigitValue(txt[i]) # NoInt
RECURSIVE int(_)
int(txt) == IF txt = <<>> THEN 0
            ELSE 10 * int(SubSeq(txt, 1, Len(txt) - 1)) + DigitValue(txt[Len(txt)])
\* int(h) if h and h.isdigit() else None
RetryAfterSeconds(h) ==
    IF h.present /\ h.text # <<>> /\ isdigit(h.text) THEN int(h.text) ELSE NoInt

RateLimitException(h) == Exc("RateLimit", [retry_after |-> RetryAfterSeconds(h), header |-> h])

(***************************************************************************)
(* What the service and the network can answer to an HTTP call.  A call on *)
(* a session that was closed while the call was in flight fails with a     *)
(* ClientError.  Every answer but "ok" counts as a fault.                  *)
(***************************************************************************)
LoginAnswers == {"ok", "auth", "ratelimit", "timeout"}
CloseAnswers == {"ok", "error"}
CloseException == Exc("Other", NoInt)

Nominal == {"ok", "json"}
Answers(all, sess) ==
    IF faults < bound.faults /\ Budget
    THEN all \cap (Nominal \cup server.faults)
    ELSE all \cap Nominal
Charge(ans, sess) ==
    faults' = IF ans \in Nominal THEN faults ELSE faults + 1
\* the answers to an HTTP call made on session sess
HttpAnswers(all, sess) ==
    IF sess \notin open THEN {"clienterror"} ELSE Answers(all, sess)
HttpCharge(ans, sess) ==
    faults' = IF ans \in Nominal \/ sess \notin open THEN faults ELSE faults + 1

\* response.status
StatusOf(ans) ==
    CASE ans = "notfound" -> 404
      [] ans = "error" -> 500
      [] ans = "ratelimit" -> 429
      [] ans = "auth" -> 401
      [] OTHER -> 200

\* AuthenticationException.raise_for and the transport errors of a call
AnswerException(ans, h) ==
    CASE ans = "auth" -> Exc("Auth", StatusOf(ans))
      [] ans = "ratelimit" -> RateLimitException(h)
      [] ans = "timeout" -> Exc("Timeout", NoInt)
      [] ans = "clienterror" -> Exc("ClientError", NoInt)

\* the answer to the login POST arrives
login_posted(t) ==
    /\ Resumable(t) /\ At(t, "login", "post")
    /\ \E ans \in HttpAnswers(LoginAnswers, Top(t).sess) :
       \E h \in {Absent} :
         /\ HttpCharge(ans, Top(t).sess)
         /\ IF ans # "ok" THEN End(t, AnswerException(ans, h))
            ELSE IF CanIssue
            THEN Suspend(t, WithTop(stack[t],
                     [proc |-> "login", pc |-> "oauth", token |-> Top(t).sess,
                      sess |-> client.session]))
            ELSE End(t, Exc("Other", NoInt))
    /\ UNCHANGED <<client, open, nsess, cancelled, timer, op, result, journal, server, nmon, calls, ticks, bound>>

\* the answer to the OAuth token GET arrives; the login is recorded
login_done(t) ==
    /\ Resumable(t) /\ At(t, "login", "oauth")
    /\ \E ans \in HttpAnswers(LoginAnswers, Top(t).sess) :
       \E h \in {Absent} :
         /\ HttpCharge(ans, Top(t).sess)
         /\ IF ans # "ok"
            THEN /\ End(t, AnswerException(ans, h))
                 /\ UNCHANGED client
            ELSE /\ End(t, Done)
                 /\ client' = [client EXCEPT
                        !.token = Top(t).token,
                        !.panel = Panel(server),
                        !.oauth_token = Top(t).sess,
                        !.consecutive_failures = 0]
    /\ UNCHANGED <<open, nsess, cancelled, timer, op, result, journal, server, nmon, calls, ticks, bound>>

(***************************************************************************)
(* _recreate_session (client.py 273-304)                                   *)
(***************************************************************************)
\* lines 284-296: the fresh session and what is cleared with it
Recreated(c, sid) ==
    [c EXCEPT !.session = sid, !.session_age = 0,
              !.token = None, !.oauth_token = None,
              !.cms_cache = NoCache, !.cms_cache_age = NoTime]

\* the counter, then `await self._session.close()` when a session is held
recreate_start(t) ==
    /\ Ready(t) /\ At(t, "_recreate_session", "start")
    /\ IF client.session # None
       THEN /\ client' = [client EXCEPT !.session_recreate_count = @ + 1]
            /\ open' = open \ {client.session}
            /\ Suspend(t, WithTop(stack[t],
                   [proc |-> "_recreate_session", pc |-> "close",
                    closing |-> client.session]))
            /\ UNCHANGED nsess
       ELSE /\ client' = Recreated([client EXCEPT !.session_recreate_count = @ + 1],
                                   nsess + 1)
            /\ open' = open \cup {nsess + 1}
            /\ nsess' = nsess + 1
            /\ Call(t, "login", Frame("login", "start"))
    /\ journal' = [journal EXCEPT
           !.recreated = @ \/ journal.streak >= FailureThreshold]
    /\ UNCHANGED <<cancelled, timer, op, result, server, nmon, calls, faults, ticks, bound>>

\* close() has returned (or raised a builtin error, which `except Exception`,
\* the abode class, does not catch); the new session; `await self.login()`
recreate_closed(t) ==
    /\ Resumable(t) /\ At(t, "_recreate_session", "close")
    /\ \E ans \in Answers(CloseAnswers, Top(t).closing) :
         /\ Charge(ans, Top(t).closing)
         /\ IF ans = "ok"
            THEN /\ client' = Recreated(client, nsess + 1)
                 /\ open' = open \cup {nsess + 1}
                 /\ nsess' = nsess + 1
                 /\ Call(t, "login", Frame("login", "start"))
            ELSE /\ End(t, CloseException)
                 /\ UNCHANGED <<client, open, nsess>>
    /\ UNCHANGED <<cancelled, timer, op, result, journal, server, nmon, calls, ticks, bound>>

\* login returned; _sync_socketio_cookies changes nothing of the client
recreate_done(t) ==
    /\ Returned(t) /\ At(t, "_recreate_session", "login")
    /\ End(t, Done)
    /\ UNCHANGED <<client, open, nsess, cancelled, timer, op, result, journal, server, nmon, calls,
                   faults, ticks, bound>>

(***************************************************************************)
(* cleanup (client.py 165-173) with _stop_session_monitor (356-364)        *)
(***************************************************************************)
cleanup_start(t) ==
    /\ Ready(t) /\ At(t, "cleanup", "start")
    /\ cancelled' = IF client.session_monitor_running /\ client.session_monitor_task # "none"
                       /\ stack[client.session_monitor_task] # <<>>
                    THEN cancelled \cup {client.session_monitor_task}
                    ELSE cancelled
    /\ IF client.session # None
       THEN /\ client' = [client EXCEPT !.session_monitor_running = FALSE]
            /\ open' = open \ {client.session}
            /\ Suspend(t, WithTop(stack[t],
                   [proc |-> "cleanup", pc |-> "close", closing |-> client.session]))
       ELSE /\ client' = [client EXCEPT !.session_monitor_running = FALSE,
                                        !.initialized = FALSE]
            /\ End(t, Done)
            /\ UNCHANGED open
    /\ UNCHANGED <<nsess, timer, op, result, journal, server, nmon, calls, faults, ticks, bound>>

cleanup_closed(t) ==
    /\ Resumable(t) /\ At(t, "cleanup", "close")
    /\ \E ans \in Answers(CloseAnswers, Top(t).closing) :
         /\ Charge(ans, Top(t).closing)
         /\ IF ans = "ok"
            THEN /\ client' = [client EXCEPT !.session = None, !.initialized = FALSE]
                 /\ End(t, Done)
            ELSE /\ End(t, CloseException)
                 /\ UNCHANGED client
    /\ UNCHANGED <<open, nsess, cancelled, timer, op, result, journal, server, nmon, calls, ticks, bound>>

(***************************************************************************)
(* _session_monitor_loop (client.py 366-413)                               *)
(***************************************************************************)
\* the loop is left: `finally` clears the flag and the task is over
MonitorExit(m) ==
    /\ client' = [client EXCEPT !.session_monitor_running = FALSE]
    /\ stack' = [stack EXCEPT ![m] = <<>>]
    /\ ret' = [ret EXCEPT ![m] = NoRet]
    /\ running' = "none"
    /\ UNCHANGED timer

\* `while self._session_monitor_running:` then `await asyncio.sleep(60)`
MonitorLoop(m) ==
    IF client.session_monitor_running
    THEN /\ Suspend(m, <<Frame("monitor", "sleep")>>)
         /\ timer' = [timer EXCEPT ![m] = MonitorInterval]
         /\ UNCHANGED client
    ELSE MonitorExit(m)

\* the age check one second late
SessionTooOldLate(c) == c.session_age # NoTime /\ c.session_age > SessionMaxAge + 1
\* lines 384-389 and 1048-1050: `if self._session_created_time` and the age
\* over _session_max_age_seconds
SessionTooOld(c) == c.session_age # NoTime /\ c.session_age > SessionMaxAge

\* the task created by _start_session_monitor runs for the first time
monitor_begin(m) ==
    /\ running = "none" /\ At(m, "monitor", "new") /\ m \notin cancelled
    /\ MonitorLoop(m)
    /\ UNCHANGED <<open, nsess, cancelled, op, result, journal, server, nmon, calls, faults, ticks, bound>>

\* the 60 s sleep is over
monitor_wake(m) ==
    /\ Resumable(m) /\ At(m, "monitor", "sleep") /\ timer[m] = 0
    /\ IF ~client.session_monitor_running
       THEN MonitorExit(m)
       ELSE IF SessionTooOld(client)
       THEN /\ Call(m, "recreate", Frame("_recreate_session", "start"))
            /\ UNCHANGED <<client, timer>>
       ELSE MonitorLoop(m)
    /\ UNCHANGED <<open, nsess, cancelled, op, result, journal, server, nmon, calls, faults, ticks, bound>>

monitor_recreated(m) ==
    /\ Returned(m) /\ At(m, "monitor", "recreate")
    /\ MonitorLoop(m)
    /\ UNCHANGED <<open, nsess, cancelled, op, result, journal, server, nmon, calls, faults, ticks, bound>>

\* `except Exception` (the abode class): log, sleep 60 s, go on
monitor_error(m) ==
    /\ running = m /\ ret[m].k = "exc" /\ ret[m].e \in AbodeExceptions
    /\ At(m, "monitor", "recreate")
    /\ Suspend(m, <<Frame("monitor", "errsleep")>>)
    /\ timer' = [timer EXCEPT ![m] = MonitorInterval]
    /\ UNCHANGED <<client, open, nsess, cancelled, op, result, journal, server, nmon, calls, faults,
                   ticks, bound>>

monitor_errwake(m) ==
    /\ Resumable(m) /\ At(m, "monitor", "errsleep") /\ CanElapse(timer[m])
    /\ IF client.session_monitor_running
       THEN /\ Suspend(m, <<Frame("monitor", "sleep")>>)
            /\ timer' = [t \in Tasks |-> IF t = m THEN MonitorInterval
                                          ELSE Max(0, timer[t] - timer[m])]
            /\ client' = Elapsed(client, timer[m])
       ELSE /\ stack' = [stack EXCEPT ![m] = <<>>]
            /\ ret' = [ret EXCEPT ![m] = NoRet]
            /\ running' = "none"
            /\ Elapse(timer[m])
            /\ client' = Elapsed(client, timer[m])
    /\ UNCHANGED <<open, nsess, cancelled, op, result, journal, server, nmon, calls, faults, ticks, bound>>

\* `except asyncio.CancelledError: break`
monitor_cancelled(m) ==
    /\ running = m /\ ret[m].k = "exc" /\ ret[m].e = "Cancelled"
    /\ stack[m] # <<>> /\ Top(m).proc = "monitor"
    /\ Top(m).pc \in {"sleep", "recreate"}
    /\ MonitorExit(m)
    /\ UNCHANGED <<open, nsess, cancelled, op, result, journal, server, nmon, calls, faults, ticks, bound>>

(***************************************************************************)
(* Responses.  ResponseWrapper (client.py 32-72) holds a status and a      *)
(* body: a parsed JSON value ("dict", with its data), None, or a string    *)
(* ("text").                                                               *)
(***************************************************************************)
ResponseWrapper(kind, data, status) == [data |-> data, kind |-> kind, status |-> status]
\* Python's None where a response is expected
PyNone == [data |-> NoData, kind |-> "NoneType", status |-> NoInt]

(***************************************************************************)
(* What the service answers to the request of _send_request: a status and  *)
(* a body.  Bodies of a status below 400:                                  *)
(*   "json"  a JSON document served as application/json                    *)
(*   "empty" an empty (or all-blank) body served as application/json:      *)
(*           aiohttp's response.json() returns None                        *)
(*   "short" fewer than 10 characters that are not JSON: json() raises     *)
(*           json.JSONDecodeError (a ValueError)                           *)
(*   "html"  any body not served as JSON (an empty one too): json() raises *)
(*           aiohttp.ContentTypeError (a ClientError)                      *)
(***************************************************************************)
RequestAnswers ==
    {"json", "empty", "short", "html", "notfound", "error", "ratelimit",
     "timeout", "clienterror"}

\* the history after the answer to a request attempt
Journal(ans) ==
    IF ans \in {"timeout", "clienterror"}
    THEN [journal EXCEPT !.streak = Min(@ + 1, FailureThreshold),
                         !.error_status = IF ans = "clienterror" THEN 0 ELSE NoInt]
    ELSE [journal EXCEPT !.streak = 0, !.recreated = FALSE,
                         !.error_status = IF StatusOf(ans) >= 400 THEN StatusOf(ans) ELSE NoInt,
                         !.not_found = IF ans = "notfound" THEN @ + 1 ELSE @]

\* response.json() of aiohttp on a body
json(body) ==
    CASE body = "json" -> Val("dict")
      [] body = "empty" -> Val("none")
      [] body = "short" -> Exc("Other", NoInt)
      [] body = "html" -> Exc("ClientError", NoInt)

(***************************************************************************)
(* _send_request (client.py 1031-1131)                                     *)
(***************************************************************************)
SendFrame(path, roe, data) ==
    [proc |-> "_send_request", pc |-> "start", data |-> data, path |-> path,
     roe |-> roe]

send_start(t) ==
    /\ Ready(t) /\ At(t, "_send_request", "start")
    /\ Call(t, "inited", Frame("_async_initialize", "start"))
    /\ journal' = [journal EXCEPT !.error_status = NoInt]
    /\ UNCHANGED <<client, open, nsess, cancelled, timer, op, result, server, nmon,
                   calls, faults, ticks, bound>>

\* `if not self._token: await self.login()`
NeedsLogin(c) == c.token = None

\* lines 1042-1045: the headers of the request
Headers(c) == [api_key |-> c.token, bearer |-> c.oauth_token]

\* lines 1058-1064: the request is made on the client's current session
Issue(t, hdrs, recreated) ==
    IF CanIssue
    THEN Suspend(t, WithTop(stack[t],
             [proc |-> "_send_request", pc |-> "http", data |-> Top(t).data,
              recreated |-> recreated, sess |-> client.session,
              path |-> Top(t).path, roe |-> Top(t).roe,
              headers |-> hdrs, age |-> client.session_age]))
    ELSE End(t, Exc("Other", NoInt))

\* lines 1047-1056: the headers are built, then the session's age is checked
Prepare(t) ==
    IF SessionTooOld(client)
    THEN Go(t, Append(WithTop(stack[t],
                 [proc |-> "_send_request", pc |-> "recreate", data |-> Top(t).data,
                  path |-> Top(t).path, roe |-> Top(t).roe,
                  headers |-> Headers(client)]),
             Frame("_recreate_session", "start")))
    ELSE Issue(t, Headers(client), FALSE)

send_inited(t) ==
    /\ Returned(t) /\ At(t, "_send_request", "inited")
    /\ IF NeedsLogin(client)
       THEN Call(t, "login", Frame("login", "start"))
       ELSE Prepare(t)
    /\ UNCHANGED <<client, open, nsess, cancelled, timer, op, result, journal, server, nmon,
                   calls, faults, ticks, bound>>

send_logged_in(t) ==
    /\ Returned(t) /\ At(t, "_send_request", "login")
    /\ Prepare(t)
    /\ UNCHANGED <<client, open, nsess, cancelled, timer, op, result, journal, server, nmon,
                   calls, faults, ticks, bound>>

send_recreated(t) ==
    /\ Returned(t) /\ At(t, "_send_request", "recreate")
    /\ Issue(t, Top(t).headers, TRUE)
    /\ UNCHANGED <<client, open, nsess, cancelled, timer, op, result, journal, server, nmon,
                   calls, faults, ticks, bound>>

\* lines 1071-1109: a status below 400.  `except Exception` at 1076 names
\* the abode class, which response.json() never raises: what json() raises
\* leaves the block, a ClientError to the handler at 1125, anything else to
\* the caller.
\* a handler that raises whatever raise_on_error is
ClientErrorRaises(roe, status) == Exc("Abode", NoInt)
\* lines 1125-1131: `except aiohttp.ClientError`
ClientErrorOutcome(roe, status) ==
    IF roe THEN Exc("Abode", NoInt)
    ELSE Val(ResponseWrapper("text", NoData, status))

BelowFourHundred(body, roe, data) ==
    LET parsed == json(body) IN
    IF parsed.k = "val"
    THEN Val(ResponseWrapper(parsed.v, IF parsed.v = "dict" THEN data ELSE NoData, 200))
    ELSE IF parsed.e \in AbodeExceptions
    THEN Exc("Auth", NoInt)
    ELSE IF parsed.e = "ClientError" THEN ClientErrorOutcome(roe, 200)
    ELSE parsed

\* the JSON document the service answers on a path
Body(path, srv) ==
    IF path \in {"cms", "security_panel", "cms_post"}
    THEN Document(Settings(srv))
    ELSE NoData

\* lines 1062-1131: what _send_request returns or raises for an answer
Outcome(ans, roe, h, data) ==
    CASE ans \in {"json", "empty", "short", "html"} -> BelowFourHundred(ans, roe, data)
      [] ans = "ratelimit" -> RateLimitException(h)
      [] ans \in {"notfound", "error"} ->
           IF roe THEN Exc("Abode", NoInt)
           ELSE Val(ResponseWrapper("text", NoData, StatusOf(ans)))
      [] ans = "timeout" -> Exc("Timeout", NoInt)
      [] ans = "clienterror" -> ClientErrorOutcome(roe, 0)

\* lines 1106-1108 run when the body of a status below 400 was extracted
Succeeded(out, ans) == out.k = "val" /\ ans \in {"json", "empty", "short", "html"}
                       /\ out.v.status = 200 /\ out.v.kind # "text"

send_answered(t) ==
    /\ Resumable(t) /\ At(t, "_send_request", "http")
    /\ \E ans \in HttpAnswers(RequestAnswers, Top(t).sess) :
       \E h \in IF ans = "ratelimit" THEN RetryAfterHeaders ELSE {Absent} :
         LET applied == IF ans = "json" /\ Top(t).path = "cms_post"
                        THEN Written(server, Top(t).data) ELSE server
             out == Outcome(ans, Top(t).roe, h, Body(Top(t).path, applied))
         IN
         /\ HttpCharge(ans, Top(t).sess)
         /\ server' = applied
         /\ journal' = Journal(ans)
         /\ client' = IF Succeeded(out, ans)
                      THEN [client EXCEPT !.consecutive_failures = 0]
                      ELSE client
         /\ End(t, out)
    /\ UNCHANGED <<open, nsess, cancelled, timer, op, result, nmon, calls, ticks, bound>>

(***************************************************************************)
(* send_request (client.py 941-1029)                                       *)
(***************************************************************************)
RequestFrame(path, roe, data) ==
    [proc |-> "send_request", pc |-> "start", data |-> data, header |-> Absent,
     path |-> path, roe |-> roe, attempt |-> 0, retry_delay |-> RetryDelaySeed, wait |-> 0,
     exc |-> NoRet]

\* a loop that goes on for as long as attempts fail
AttemptAgain(t, f) ==
    Go(t, Append(WithTop(stack[t], [f EXCEPT !.pc = "call"]),
                 SendFrame(f.path, f.roe, f.data)))
\* `for attempt in range(max_attempts)`: the next attempt, or the end of the
\* loop, after which the function ends without a return statement
Attempt(t, f) ==
    IF f.attempt < MaxAttempts
    THEN Go(t, Append(WithTop(stack[t], [f EXCEPT !.pc = "call"]),
                      SendFrame(f.path, f.roe, f.data)))
    ELSE End(t, Val(PyNone))

request_start(t) ==
    /\ Ready(t) /\ At(t, "send_request", "start")
    /\ Attempt(t, Top(t))
    /\ UNCHANGED <<client, open, nsess, cancelled, timer, op, result, journal, server, nmon,
                   calls, faults, ticks, bound>>

request_returned(t) ==
    /\ Returned(t) /\ At(t, "send_request", "call")
    /\ End(t, ret[t])
    /\ UNCHANGED <<client, open, nsess, cancelled, timer, op, result, journal, server, nmon,
                   calls, faults, ticks, bound>>

\* `exc.retry_after or 30`
OrDefault(x, d) == IF x = NoInt \/ x = 0 THEN d ELSE x
\* the wait without the floor of 30 seconds
WaitSecondsNoFloor(retry_after) == OrDefault(retry_after, RateLimitFloor)
\* line 970
WaitSeconds(retry_after) == Max(RateLimitFloor, OrDefault(retry_after, RateLimitFloor))

\* lines 968-978: `except RateLimitException`
request_rate_limited(t) ==
    /\ running = t /\ ret[t].k = "exc" /\ ret[t].e = "RateLimit"
    /\ At(t, "send_request", "call")
    /\ Suspend(t, WithTop(stack[t],
           [Top(t) EXCEPT !.pc = "rl_sleep",
                          !.wait = WaitSeconds(ret[t].v.retry_after),
                          !.header = ret[t].v.header]))
    /\ timer' = [timer EXCEPT ![t] = WaitSeconds(ret[t].v.retry_after)]
    /\ UNCHANGED <<client, open, nsess, cancelled, op, result, journal, server, nmon, calls, faults,
                   ticks, bound>>

\* line 979, then the next iteration
request_rate_waited(t) ==
    /\ Resumable(t) /\ At(t, "send_request", "rl_sleep") /\ CanElapse(timer[t])
    /\ client' = Elapsed(client, timer[t])
    /\ Elapse(timer[t])
    /\ Attempt(t, [Top(t) EXCEPT !.attempt = @ + 1,
                                 !.retry_delay = Min(Top(t).wait * 2, RateLimitCap),
                                 !.wait = 0, !.header = Absent])
    /\ UNCHANGED <<open, nsess, cancelled, op, result, journal, server, nmon, calls, faults, ticks, bound>>

\* lines 998-1020: the last attempt re-raises, the others sleep retry_delay
AfterFailure(t, f) ==
    IF f.attempt = MaxAttempts - 1
    THEN /\ End(t, f.exc)
         /\ UNCHANGED timer
    ELSE /\ Suspend(t, WithTop(stack[t], [f EXCEPT !.pc = "retry_sleep"]))
         /\ timer' = [timer EXCEPT ![t] = f.retry_delay]

\* lines 980-995: `except (TimeoutError, aiohttp.ClientError)`
request_failed(t) ==
    /\ running = t /\ ret[t].k = "exc" /\ ret[t].e \in ConnectionErrors
    /\ At(t, "send_request", "call")
    /\ client' = [client EXCEPT !.consecutive_failures = @ + 1]
    /\ IF client.consecutive_failures + 1 >= FailureThreshold
       THEN /\ Go(t, Append(WithTop(stack[t],
                       [Top(t) EXCEPT !.pc = "recreate", !.exc = ret[t]]),
                   Frame("_recreate_session", "start")))
            /\ UNCHANGED timer
       ELSE AfterFailure(t, [Top(t) EXCEPT !.exc = ret[t]])
    /\ UNCHANGED <<open, nsess, cancelled, op, result, journal, server, nmon, calls, faults, ticks, bound>>

\* _recreate_session returned, or raised an abode exception (lines 994-995)
request_recreated(t) ==
    /\ running = t /\ At(t, "send_request", "recreate")
    /\ ret[t].k = "val" \/ (ret[t].k = "exc" /\ ret[t].e \in AbodeExceptions)
    /\ AfterFailure(t, Top(t))
    /\ UNCHANGED <<client, open, nsess, cancelled, op, result, journal, server, nmon, calls, faults,
                   ticks, bound>>

\* line 1022: the sleep is over, `await self.login()`
request_relogin(t) ==
    /\ Resumable(t) /\ At(t, "send_request", "retry_sleep") /\ CanElapse(timer[t])
    /\ client' = Elapsed(client, timer[t])
    /\ Elapse(timer[t])
    /\ Call(t, "relogin", Frame("login", "start"))
    /\ UNCHANGED <<open, nsess, cancelled, op, result, journal, server, nmon, calls, faults, ticks, bound>>

\* login returned, or raised an abode exception (lines 1023-1026); line 1029
request_retry(t) ==
    /\ running = t /\ At(t, "send_request", "relogin")
    /\ ret[t].k = "val" \/ (ret[t].k = "exc" /\ ret[t].e \in AbodeExceptions)
    /\ Attempt(t, [Top(t) EXCEPT !.attempt = @ + 1,
                                 !.retry_delay = Min(@ * 2, RetryDelayCap),
                                 !.exc = NoRet])
    /\ UNCHANGED <<client, open, nsess, cancelled, timer, op, result, journal, server, nmon,
                   calls, faults, ticks, bound>>

(***************************************************************************)
(* _normalize_cms_settings (client.py 857-894)                             *)
(***************************************************************************)
\* key_map.get(str(key)); "" stands for None
KeyMap(key) ==
    CASE key \in {"monitoringactive", "monitoring_active", "monitoringActive"} ->
           "monitoringActive"
      [] key \in {"testmodeactive", "test_mode_active", "testModeActive"} ->
           "testModeActive"
      [] key \in {"sendmedia", "send_media", "sendMedia"} -> "sendMedia"
      [] key \in {"dispatchwithoutverification", "dispatch_without_verification",
                  "dispatchWithoutVerification"} -> "dispatchWithoutVerification"
      [] key \in {"dispatchpolice", "dispatch_police", "dispatchPolice"} ->
           "dispatchPolice"
      [] key \in {"dispatchfire", "dispatch_fire", "dispatchFire"} -> "dispatchFire"
      [] key \in {"dispatchmedical", "dispatch_medical", "dispatchMedical"} ->
           "dispatchMedical"
      [] OTHER -> ""
\* bool(value) of a JSON boolean
bool(value) == value = TRUE
RECURSIVE normalize_cms_settings(_)
normalize_cms_settings(raw) ==
    IF raw = <<>> THEN EmptyDict
    ELSE LET normalized == normalize_cms_settings(SubSeq(raw, 1, Len(raw) - 1))
             item == raw[Len(raw)]
             norm_key == KeyMap(item.key)
         IN  IF norm_key = "" THEN normalized
             ELSE Put(normalized, norm_key, bool(item.value))

(***************************************************************************)
(* ResponseWrapper.json (client.py 56-63): the cached body when it is a    *)
(* dict or None, json.loads of it when it is a string.  The text of an     *)
(* error answer is not JSON: json.loads raises json.JSONDecodeError.       *)
(***************************************************************************)
WrapperJson(r) ==
    CASE r.kind = "dict" -> Val(r.data)
      [] r.kind = "none" -> Val(PyNone)
      [] OTHER -> Exc("Other", NoInt)

(***************************************************************************)
(* _fetch_cms_settings (client.py 818-855).  `except Exception` at 836     *)
(* names the abode class, which ResponseWrapper.json() does not raise: the *)
(* handler, and the call of _handle_empty_response_and_retry in it, never  *)
(* run.                                                                    *)
(***************************************************************************)
fetch_cms_start(t) ==
    /\ Ready(t) /\ At(t, "_fetch_cms_settings", "start")
    /\ Call(t, "call", RequestFrame("cms", FALSE, EmptyDict))
    /\ UNCHANGED <<client, open, nsess, cancelled, timer, op, result, journal, server,
                   nmon, calls, faults, ticks, bound>>

FetchedCms(r) ==
    IF r = PyNone \/ r.status = 404 THEN Val(EmptyDict)
    ELSE LET response_data == WrapperJson(r) IN
         IF response_data.k = "exc" THEN response_data
         ELSE IF r.kind = "dict" THEN Val(response_data.v.cms)
         ELSE Val(EmptyDict)

fetch_cms_done(t) ==
    /\ Returned(t) /\ At(t, "_fetch_cms_settings", "call")
    /\ End(t, FetchedCms(ret[t].v))
    /\ UNCHANGED <<client, open, nsess, cancelled, timer, op, result, journal, server,
                   nmon, calls, faults, ticks, bound>>

(***************************************************************************)
(* _fetch_cms_from_security_panel (client.py 781-816); its handler at 793  *)
(* never runs either.  On a body None, `response_data.get` raises          *)
(* AttributeError.                                                         *)
(***************************************************************************)
fetch_panel_start(t) ==
    /\ Ready(t) /\ At(t, "_fetch_cms_from_security_panel", "start")
    /\ Call(t, "call", RequestFrame("security_panel", FALSE, EmptyDict))
    /\ UNCHANGED <<client, open, nsess, cancelled, timer, op, result, journal, server,
                   nmon, calls, faults, ticks, bound>>

FetchedPanel(r) ==
    IF r = PyNone \/ r.status = 404 THEN Val(EmptyDict)
    ELSE LET response_data == WrapperJson(r) IN
         IF response_data.k = "exc" THEN response_data
         ELSE IF r.kind = "dict" THEN Val(response_data.v.cms)
         ELSE Exc("Other", NoInt)

fetch_panel_done(t) ==
    /\ Returned(t) /\ At(t, "_fetch_cms_from_security_panel", "call")
    /\ End(t, FetchedPanel(ret[t].v))
    /\ UNCHANGED <<client, open, nsess, cancelled, timer, op, result, journal, server,
                   nmon, calls, faults, ticks, bound>>

(***************************************************************************)
(* get_cms_settings (client.py 728-779)                                    *)
(***************************************************************************)
CmsFrame(ttl_seconds) ==
    [proc |-> "get_cms_settings", pc |-> "start", ttl_seconds |-> ttl_seconds,
     waited |-> FALSE, cached_age |-> NoTime, combined |-> EmptyDict,
     panel_norm |-> EmptyDict, cms_norm |-> EmptyDict]

\* asyncio.Lock: acquire() returns at once when the lock is free and nobody
\* waits for it; release() leaves the lock to the first waiter
Release(l) == [l EXCEPT !.locked = FALSE]
\* what get_cms_settings returns
SettingsResult(cms, cached) == [cms |-> cms, kind |-> "settings", cached |-> cached]

\* `if self._cms_cache and self._cms_cache_time` and `age < ttl`
CacheFresh(c, ttl) ==
    /\ c.cms_cache.present /\ c.cms_cache.cms # EmptyDict
    /\ c.cms_cache_age # NoTime
    /\ c.cms_cache_age < ttl

\* lines 756-760: the settings of the panel object stored by login
PanelNorm(c) ==
    IF c.panel.present THEN normalize_cms_settings(c.panel.cms) ELSE EmptyDict

\* lines 744-763, with the lock held in client c
Locked(t, c, f) ==
    IF CacheFresh(c, OrDefault(f.ttl_seconds, DefaultTtl))
    THEN /\ client' = [c EXCEPT !.cms_lock = Release(@)]
         /\ End(t, Val(SettingsResult(c.cms_cache.cms, TRUE)))
    ELSE /\ client' = c
         /\ Go(t, Append(WithTop(stack[t],
                   [f EXCEPT !.pc = "primary", !.cached_age = c.cms_cache_age,
                             !.combined = PanelNorm(c),
                             !.panel_norm = PanelNorm(c)]),
               Frame("_fetch_cms_settings", "start")))

cms_start(t) ==
    /\ Ready(t) /\ At(t, "get_cms_settings", "start")
    /\ IF ~client.cms_lock.locked /\ client.cms_lock.waiters = <<>>
       THEN Locked(t, [client EXCEPT !.cms_lock.locked = TRUE], Top(t))
       ELSE /\ client' = [client EXCEPT !.cms_lock.waiters = Append(@, t)]
            /\ Suspend(t, WithTop(stack[t],
                   [Top(t) EXCEPT !.pc = "lock", !.waited = TRUE]))
    /\ UNCHANGED <<open, nsess, cancelled, timer, op, result, journal, server, nmon,
                   calls, faults, ticks, bound>>

\* the lock was released and this task is the first of its waiters
cms_acquired(t) ==
    /\ Resumable(t) /\ At(t, "get_cms_settings", "lock")
    /\ ~client.cms_lock.locked /\ Head(client.cms_lock.waiters) = t
    /\ Locked(t, [client EXCEPT !.cms_lock =
                      [locked |-> TRUE, waiters |-> Tail(@.waiters)]], Top(t))
    /\ UNCHANGED <<open, nsess, cancelled, timer, op, result, journal, server, nmon,
                   calls, faults, ticks, bound>>

\* lines 763-768
cms_primary_done(t) ==
    /\ Returned(t) /\ At(t, "get_cms_settings", "primary")
    /\ Go(t, Append(WithTop(stack[t],
              [Top(t) EXCEPT !.pc = "fallback",
                   !.combined = Update(@, normalize_cms_settings(ret[t].v)),
                   !.cms_norm = normalize_cms_settings(ret[t].v)]),
          Frame("_fetch_cms_from_security_panel", "start")))
    /\ UNCHANGED <<client, open, nsess, cancelled, timer, op, result, journal, server,
                   nmon, calls, faults, ticks, bound>>

\* lines 769-779
cms_fallback_done(t) ==
    /\ Returned(t) /\ At(t, "get_cms_settings", "fallback")
    /\ LET sec_panel == ret[t].v
           combined == IF sec_panel # EmptyDict
                       THEN SetDefaults(Top(t).combined,
                                        normalize_cms_settings(sec_panel))
                       ELSE Top(t).combined
       IN  /\ client' = [client EXCEPT !.cms_cache = Cache(combined),
                                       !.cms_cache_age = 0,
                                       !.cms_lock = Release(@)]
           /\ End(t, Val(SettingsResult(combined, FALSE)))
    /\ UNCHANGED <<open, nsess, cancelled, timer, op, result, journal, server, nmon,
                   calls, faults, ticks, bound>>

(***************************************************************************)
(* set_cms_setting (client.py 896-939)                                     *)
(***************************************************************************)
SetFrame(key, value) ==
    [proc |-> "set_cms_setting", pc |-> "start", key |-> key, value |-> value]

set_cms_start(t) ==
    /\ Ready(t) /\ At(t, "set_cms_setting", "start")
    /\ Call(t, "call", RequestFrame("cms_post", TRUE,
                                    <<Entry(Top(t).key, Top(t).value)>>))
    /\ UNCHANGED <<client, open, nsess, cancelled, timer, op, result, journal, server,
                   nmon, calls, faults, ticks, bound>>

\* response_object.get(key)
Get(d, k) == LET i == CHOOSE i \in 1..Len(d) : d[i].key = k IN d[i].value

\* lines 912-939; `response.json()` on None raises AttributeError
SetOutcome(r, key, value) ==
    IF r = PyNone THEN Exc("Other", NoInt)
    ELSE LET parsed == WrapperJson(r) IN
         IF parsed.k = "exc" THEN parsed
         ELSE LET response_object == IF r.kind = "dict" THEN parsed.v.cms
                                     ELSE EmptyDict
              IN  IF ~HasKey(response_object, key)
                     \/ Get(response_object, key) # value
                  THEN Exc("Abode", NoInt)
                  ELSE Val(SettingsResult(response_object, FALSE))

set_cms_done(t) ==
    /\ Returned(t) /\ At(t, "set_cms_setting", "call")
    /\ LET out == SetOutcome(ret[t].v, Top(t).key, Top(t).value) IN
       /\ End(t, out)
       /\ client' = IF out.k = "val"
                    THEN [client EXCEPT !.cms_cache = NoCache,
                                        !.cms_cache_age = NoTime]
                    ELSE client
       /\ journal' = [journal EXCEPT !.written = @ \/ out.k = "val"]
    /\ UNCHANGED <<open, nsess, cancelled, timer, op, result, server, nmon, calls,
                   faults, ticks, bound>>

(***************************************************************************)
(* get_test_mode (client.py 680-701); `except Exception` names the abode   *)
(* class.                                                                  *)
(***************************************************************************)
get_test_mode_start(t) ==
    /\ Ready(t) /\ At(t, "get_test_mode", "start")
    /\ IF ~client.test_mode_supported
       THEN End(t, Exc("Abode", NoInt))
       ELSE Call(t, "call", CmsFrame(DefaultTtl))
    /\ UNCHANGED <<client, open, nsess, cancelled, timer, op, result, journal, server,
                   nmon, calls, faults, ticks, bound>>

\* lines 690-701
get_test_mode_done(t) ==
    /\ running = t /\ At(t, "get_test_mode", "call")
    /\ \/ /\ ret[t].k = "val"
          /\ LET cms_settings == ret[t].v.cms IN
             End(t, Val(/\ HasKey(cms_settings, "testModeActive")
                        /\ bool(Get(cms_settings, "testModeActive"))))
          /\ UNCHANGED client
       \/ /\ ret[t].k = "exc" /\ ret[t].e \in AbodeExceptions
          /\ client' = [client EXCEPT !.test_mode_supported = FALSE]
          /\ End(t, Val(FALSE))
    /\ UNCHANGED <<open, nsess, cancelled, timer, op, result, journal, server, nmon,
                   calls, faults, ticks, bound>>

(***************************************************************************)
(* Task.cancel() reaches the task: CancelledError is raised at its await.  *)
(* A task that never ran ends without running any of its code.             *)
(***************************************************************************)
DeliverCancel(t) ==
    /\ running = "none" /\ t \in cancelled /\ stack[t] # <<>>
    /\ cancelled' = cancelled \ {t}
    /\ IF Top(t).pc = "new"
       THEN /\ stack' = [stack EXCEPT ![t] = <<>>]
            /\ UNCHANGED <<ret, running>>
       ELSE /\ ret' = [ret EXCEPT ![t] = Exc("Cancelled", NoInt)]
            /\ running' = t
            /\ UNCHANGED stack
    /\ UNCHANGED <<client, open, nsess, timer, op, result, journal, server, nmon, calls, faults, ticks, bound>>

(***************************************************************************)
(* Exception handlers: which exceptions the try blocks around the top      *)
(* frame's current position catch.                                         *)
(***************************************************************************)
Handles(f, e) ==
    CASE f.proc = "monitor" ->
           f.pc \in {"sleep", "recreate"} /\ e \in AbodeExceptions \cup {"Cancelled"}
      [] f.proc = "_recreate_session" -> f.pc = "close" /\ e \in AbodeExceptions
      [] f.proc = "send_request" ->
           \/ f.pc = "call" /\ e \in ConnectionErrors \cup {"RateLimit"}
           \/ f.pc \in {"recreate", "relogin"} /\ e \in AbodeExceptions
      [] f.proc = "get_test_mode" -> f.pc = "call" /\ e \in AbodeExceptions
      [] OTHER -> FALSE

\* an exception no handler of the top frame catches leaves the frame
Unwind(t) ==
    /\ running = t /\ ret[t].k = "exc" /\ stack[t] # <<>>
    /\ ~Handles(Top(t), ret[t].e)
    /\ IF Top(t).proc = "monitor"
       THEN MonitorExit(t)
       ELSE /\ stack' = [stack EXCEPT ![t] = Pop(@)]
            \* `async with self._cms_lock` releases the lock
            /\ client' = IF Top(t).proc = "get_cms_settings"
                         THEN [client EXCEPT !.cms_lock = Release(@)]
                         ELSE client
            /\ UNCHANGED <<ret, running, timer>>
    /\ UNCHANGED <<open, nsess, cancelled, op, result, journal, server, nmon, calls, faults, ticks, bound>>

(***************************************************************************)
(* The application (Home Assistant) calls the client.                      *)
(***************************************************************************)
Idle(t) == t \in AppTasks /\ running = "none" /\ stack[t] = <<>> /\ calls < bound.calls /\ Budget

Invoke(t, f) ==
    /\ Idle(t)
    /\ stack' = [stack EXCEPT ![t] = <<f>>]
    /\ running' = t
    /\ calls' = calls + 1
    /\ op' = [op EXCEPT ![t] =
           [name |-> f.proc,
            after_write |-> f.proc = "get_cms_settings" /\ journal.written]]
    /\ journal' = [journal EXCEPT
           !.written = @ /\ f.proc # "get_cms_settings",
           !.not_found = 0]
    /\ result' = [result EXCEPT ![t] = NoRet]
    /\ UNCHANGED <<client, open, nsess, ret, cancelled, timer, server, nmon,
                   faults, ticks, bound>>

call_send_request(t) == \E roe \in BOOLEAN : Invoke(t, RequestFrame("panel", roe, EmptyDict))
call_cleanup(t) == nmon < Len(MonIds) /\ Invoke(t, Frame("cleanup", "start"))
call_get_cms_settings(t) ==
    \* the values of ttl_seconds that callers pass: 0, and the default
    \E ttl_seconds \in {0, DefaultTtl} : Invoke(t, CmsFrame(ttl_seconds))
call_set_cms_setting(t) ==
    \E value \in BOOLEAN : Invoke(t, SetFrame("testModeActive", value))

\* the top-level call is over: its caller has the value or the exception
Finish(t) ==
    /\ t \in AppTasks /\ running = t /\ stack[t] = <<>> /\ ret[t].k # "none"
    /\ result' = [result EXCEPT ![t] = ret[t]]
    /\ ret' = [ret EXCEPT ![t] = NoRet]
    /\ running' = "none"
    /\ UNCHANGED <<client, open, nsess, stack, cancelled, timer, op, journal, server, nmon,
                   calls, faults, ticks, bound>>

\* the steps of a request and of what it calls
RequestSteps ==
    \/ \E t \in AppTasks : Finish(t)
    \/ \E t \in Tasks :
         \/ send_start(t) \/ send_inited(t) \/ send_logged_in(t)
         \/ send_recreated(t) \/ send_answered(t)
         \/ request_start(t) \/ request_returned(t)
         \/ async_initialize(t)
         \/ login_start(t) \/ login_post(t) \/ login_posted(t) \/ login_done(t)
         \/ recreate_start(t) \/ recreate_closed(t) \/ recreate_done(t)
         \/ Unwind(t)
\* the handlers of send_request
RetrySteps ==
    \E t \in Tasks :
         \/ request_rate_limited(t) \/ request_rate_waited(t)
         \/ request_failed(t) \/ request_recreated(t)
         \/ request_relogin(t) \/ request_retry(t)
CleanupSteps ==
    \/ \E t \in Tasks : cleanup_start(t) \/ cleanup_closed(t) \/ DeliverCancel(t)
    \/ \E m \in MonTasks : monitor_cancelled(m)
MonitorSteps ==
    \E m \in MonTasks : monitor_begin(m) \/ monitor_wake(m) \/ monitor_recreated(m)
MonitorErrorSteps ==
    \E m \in MonTasks : monitor_error(m) \/ monitor_errwake(m)
CmsSteps ==
    \E t \in Tasks :
         \/ cms_start(t) \/ cms_acquired(t) \/ cms_primary_done(t)
         \/ cms_fallback_done(t)
         \/ fetch_cms_start(t) \/ fetch_cms_done(t)
         \/ fetch_panel_start(t) \/ fetch_panel_done(t)
         \/ set_cms_start(t) \/ set_cms_done(t)
         \/ get_test_mode_start(t) \/ get_test_mode_done(t)

(***************************************************************************)
(* The request executor and the session manager: one caller makes its      *)
(* calls one after the other while the monitor runs.                       *)
(***************************************************************************)
Next ==
    \/ call_send_request("a") \/ call_cleanup("a")
    \/ RequestSteps \/ RetrySteps \/ CleanupSteps
    \/ MonitorSteps \/ MonitorErrorSteps
    \/ \E d \in TickSteps : Tick(d)

Spec == Init /\ [][Next]_vars

(***************************************************************************)
(* The settings cache: two callers read and write the settings of an       *)
(* account that has them or not; the service answers or fails with a 404   *)
(* or an empty body.                                                       *)
(***************************************************************************)
CmsCalls == 3
CmsFaults == 2
CmsTicks == 2
CmsEvents == 4

InitCms ==
    /\ client = NewClient
    /\ open = {}
    /\ nsess = 0
    /\ stack = [t \in Tasks |-> <<>>]
    /\ ret = [t \in Tasks |-> NoRet]
    /\ running = "none"
    /\ cancelled = {}
    /\ timer = [t \in Tasks |-> 0]
    /\ op = [t \in AppTasks |-> NoOp]
    /\ result = [t \in AppTasks |-> NoRet]
    /\ journal = NoJournal
    /\ \E plan \in BOOLEAN : server = Account(plan, {"notfound", "empty", "auth"})
    /\ nmon = 0
    /\ calls = 0
    /\ faults = 0
    /\ ticks = 0
    /\ bound = Bound(CmsCalls, CmsFaults, CmsTicks, CmsEvents)

NextCms ==
    \/ \E t \in AppTasks : call_get_cms_settings(t)
    \/ call_set_cms_setting("b")
    \/ Invoke("a", Frame("get_test_mode", "start"))
    \/ RequestSteps \/ MonitorSteps \/ CmsSteps
    \/ \E d \in TickSteps : Tick(d)

SpecCms == InitCms /\ [][NextCms]_vars

(***************************************************************************)
(* Properties of the session manager.                                      *)
(***************************************************************************)
\* C1: at most one unclosed session exists: every session that is not the
\* client's current session has been closed.
C1_OneLiveSession == \A sid \in open : sid = client.session

\* C2: the tokens in the headers of a request of _send_request were
\* obtained by a login on the session the request is sent on.
C2_TokenBoundToSession ==
    \A t \in Tasks : At(t, "_send_request", "http") =>
        /\ Top(t).headers.api_key \in {None, Top(t).sess}
        /\ Top(t).headers.bearer \in {None, Top(t).sess}

\* C10: the monitor never closes the session on which a request is in
\* flight.
C10_MonitorSparesRequests ==
    \A m \in MonTasks : \A t \in AppTasks :
        ~(/\ At(m, "_recreate_session", "close")
          /\ At(t, "_send_request", "http")
          /\ Top(t).sess = Top(m).closing)

(***************************************************************************)
(* Properties of the settings cache.                                       *)
(***************************************************************************)
\* C3: a get_cms_settings call that waited for a concurrent call and then
\* finds the result of a fetch stored within the ttl makes no fetch of its
\* own.
C3_SingleFlight ==
    \A t \in Tasks : \A i \in 1..Len(stack[t]) :
        LET f == stack[t][i] IN
        (f.proc = "get_cms_settings" /\ f.pc \in {"primary", "fallback"}) =>
            ~(/\ f.waited
              /\ f.cached_age # NoTime
              /\ f.cached_age < OrDefault(f.ttl_seconds, DefaultTtl))

\* C4: the first get_cms_settings call made after a settings write has
\* returned is not answered from the cache.
C4_FreshAfterWrite ==
    \A t \in AppTasks :
        (op[t].name = "get_cms_settings" /\ op[t].after_write
         /\ result[t].k = "val") => ~result[t].v.cached

(***************************************************************************)
(* Properties of the request executor.                                     *)
(***************************************************************************)
\* C5: no request attempt is made after three or more consecutive
\* connection-level failures unless _recreate_session was invoked since the
\* third of them.
C5_RecreatedAfterThreeFailures ==
    \A t \in Tasks : At(t, "_send_request", "http") =>
        (journal.streak >= FailureThreshold => journal.recreated)

C7_AlwaysAnOutcome ==
    \A t \in AppTasks :
        (op[t].name = "send_request" /\ result[t].k = "val") => result[t].v # PyNone

\* C8: a response below 400 whose body is empty is never returned by
\* send_request as a successful response.
C8_EmptyBodyNotReturned ==
    \A t \in AppTasks :
        (op[t].name = "send_request" /\ result[t].k = "val") =>
            ~(result[t].v.kind = "none" /\ result[t].v.status < 400)

C11_MonitorRunsUntilStopped ==
    [][\A m \in MonTasks :
         (stack[m] # <<>> /\ stack'[m] = <<>> /\ client.session_monitor_task = m)
             => \/ ~client.session_monitor_running
                \/ m \in cancelled
                \/ ret[m].e = "Cancelled"]_vars


(***************************************************************************)
(* Properties of the retry loop of send_request.                           *)
(***************************************************************************)
\* C12: with raise_on_error true, an exception that stems from a
\* connection-level failure (the abode Exception raised for a transport
\* failure of the attempt, or a timeout or transport failure raised inside
\* the handler of a failed attempt) leaves send_request only on the last of
\* the 3 attempts.
C12_ConnectionErrorsRetried ==
    \A t \in Tasks :
        (/\ running = t /\ ret[t].k = "exc" /\ stack[t] # <<>>
         /\ Top(t).proc = "send_request" /\ Top(t).roe
         /\ ~Handles(Top(t), ret[t].e)
         /\ \/ Top(t).pc = "call" /\ ret[t].e = "Abode" /\ journal.streak > 0
            \/ Top(t).pc \in {"recreate", "relogin"} /\ ret[t].e \in ConnectionErrors)
        => Top(t).attempt = MaxAttempts - 1


\* The event loop runs every task that can go on, every HTTP call ends
\* within the session's timeout and every sleep ends: a step that can be
\* taken is taken.
SpecLive == Spec /\ WF_vars(Next)

\* C13: every send_request call ends, and no call makes more than 3 attempts
\* of the underlying request: every send_request frame is in one of the 3
\* iterations of its loop, and a call that was made has an outcome later.
C13_TerminatesInThreeAttempts ==
    /\ [](\A t \in Tasks : \A i \in 1..Len(stack[t]) :
            stack[t][i].proc = "send_request" => stack[t][i].attempt < MaxAttempts)
    /\ \A t \in AppTasks :
         (op[t].name = "send_request" /\ result[t].k = "none")
             ~> ~(op[t].name = "send_request" /\ result[t].k = "none")
\* a call whose three attempts were all answered 429 has ended
C13_Witness ==
    op["a"].name = "send_request" /\ result["a"] = Val(PyNone)


\* C14: with raise_on_error true, the exception that _send_request raises
\* for a response status of 400 or more other than 429 is an abode error
\* whose arguments hold the status of the response.
C14_ErrorCarriesStatus ==
    \A t \in Tasks :
        (/\ running = t /\ ret[t].k = "exc" /\ At(t, "send_request", "call")
         /\ Top(t).roe
         /\ journal.error_status >= 400 /\ journal.error_status # 429)
        => /\ ret[t].e \in {"Abode", "Auth"}
           /\ ret[t].v = journal.error_status


\* C15: with raise_on_error false, _send_request raises neither for a
\* response status of 400 or more other than 429 nor for a ClientError of
\* the request: it returns a wrapper around the text whose status is the
\* status of the response, 0 for the ClientError.
C15_NoRaiseWithoutRaiseOnError ==
    \A t \in Tasks :
        (/\ running = t /\ ret[t].k # "none" /\ At(t, "send_request", "call")
         /\ ~Top(t).roe
         /\ journal.error_status \in ({0} \cup (400..599)) \ {429})
        => /\ ret[t].k = "val" /\ ret[t].v # PyNone
           /\ ret[t].v.kind = "text"
           /\ ret[t].v.status = journal.error_status
\* a transport failure was returned as a response of status 0
C15_Witness ==
    /\ running = "a" /\ At("a", "send_request", "call") /\ ~Top("a").roe
    /\ journal.error_status = 0
    /\ ret["a"] = Val(ResponseWrapper("text", NoData, 0))


(***************************************************************************)
(* _normalize_cms_settings alone: task "a" calls it on a settings object   *)
(* of at most MaxRawLen keys, spelled as key_map spells them (lines        *)
(* 863-885), capitalised, or not a setting name at all.                    *)
(***************************************************************************)
MaxRawLen == 2
InitNormalize ==
    /\ client = NewClient
    /\ open = {}
    /\ nsess = 0
    /\ \E n \in 0..MaxRawLen :
       \E raw \in [1..n -> {Entry(k, v) :
                k \in {"monitoring_active", "monitoringactive", "monitoringActive",
                       "MonitoringActive", "test_mode_active", "testmodeactive",
                       "testModeActive", "TestModeActive", "timezone"},
                v \in BOOLEAN}] :
          /\ \A i, j \in 1..n : raw[i].key = raw[j].key => i = j
          /\ stack = [t \in Tasks |->
                        IF t = "a"
                        THEN <<[proc |-> "_normalize_cms_settings", pc |-> "start",
                                data |-> raw]>>
                        ELSE <<>>]
    /\ ret = [t \in Tasks |-> NoRet]
    /\ running = "a"
    /\ cancelled = {}
    /\ timer = [t \in Tasks |-> 0]
    /\ op = [t \in AppTasks |-> NoOp]
    /\ result = [t \in AppTasks |-> NoRet]
    /\ journal = NoJournal
    /\ server = Account(TRUE, {})
    /\ nmon = 0
    /\ calls = 0
    /\ faults = 0
    /\ ticks = 0
    /\ bound = Bound(MaxCalls, MaxFaults, MaxTicks, MaxEvents)

\* lines 859-894, up to the return statement
normalize_cms_settings_call(t) ==
    /\ running = t /\ At(t, "_normalize_cms_settings", "start")
    /\ stack' = [stack EXCEPT ![t] = WithTop(@, [Top(t) EXCEPT !.pc = "return"])]
    /\ ret' = [ret EXCEPT ![t] = Val(normalize_cms_settings(Top(t).data))]
    /\ UNCHANGED <<client, open, nsess, running, cancelled, timer, op, result, journal,
                   server, nmon, calls, faults, ticks, bound>>

SpecNormalize == InitNormalize /\ [][normalize_cms_settings_call("a")]_vars

\* C16: every key of the input that spells a setting name in snake_case, in
\* lowercase, in camelCase or capitalised is in the output under the
\* camelCase name, none is dropped, and with the input's value when no other
\* key of the input spells the same name.
C16_EveryVariantNormalized ==
    \A t \in Tasks :
        At(t, "_normalize_cms_settings", "return") =>
            LET raw == Top(t).data
                out == ret[t].v
                name(k) ==
                    CASE k \in {"monitoring_active", "monitoringactive",
                                "monitoringActive", "MonitoringActive"} ->
                           "monitoringActive"
                      [] k \in {"test_mode_active", "testmodeactive",
                                "testModeActive", "TestModeActive"} ->
                           "testModeActive"
                      [] OTHER -> ""
            IN  \A i \in 1..Len(raw) :
                    name(raw[i].key) # "" =>
                        /\ HasKey(out, name(raw[i].key))
                        /\ (\A j \in 1..Len(raw) :
                                name(raw[j].key) = name(raw[i].key) => j = i)
                           => Get(out, name(raw[i].key)) = raw[i].value



C18_StaleEntryNeverReturned ==
    [][\A t \in AppTasks :
         (/\ At(t, "get_cms_settings", "start") \/ At(t, "get_cms_settings", "lock")
          /\ stack'[t] # stack[t]
          /\ ~(Len(stack'[t]) = Len(stack[t]) /\ stack'[t][Len(stack'[t])].pc = "lock")
          /\ ~(/\ client.cms_cache.present
               /\ client.cms_cache_age # NoTime
               /\ client.cms_cache_age < Top(t).ttl_seconds))
         => /\ Len(stack'[t]) > Len(stack[t])
            /\ stack'[t][Len(stack'[t])].proc = "_fetch_cms_settings"]_vars


\* C19: when the request of a settings source is answered with an empty
\* body, the fetch of that source does not raise and goes on to recreate the
\* session (_handle_empty_response_and_retry, which calls _recreate_session)
\* before it asks the source again.
C19_EmptyBodyRecreatesSession ==
    [][\A t \in AppTasks :
         (/\ Returned(t)
          /\ \/ At(t, "_fetch_cms_settings", "call")
             \/ At(t, "_fetch_cms_from_security_panel", "call")
          /\ ret[t].v.kind = "none")
         => /\ ret'[t].k # "exc"
            /\ Len(stack'[t]) > Len(stack[t])
            /\ stack'[t][Len(stack'[t])].proc \in
                  {"_handle_empty_response_and_retry", "_recreate_session"}]_vars


\* C20: a call of _async_initialize on a client that is not initialized
\* creates exactly one session and starts exactly one monitor task; every
\* call made while the client is initialized, by the same task or by another
\* one while the first is suspended, changes nothing of the client, its
\* sessions or its monitor tasks.
C20_InitializeIdempotent ==
    [][\A t \in AppTasks :
         (Ready(t) /\ At(t, "_async_initialize", "start"))
         => IF client.initialized
            THEN /\ client' = client /\ open' = open
                 /\ nsess' = nsess /\ nmon' = nmon
                 /\ \A m \in MonTasks : stack'[m] = stack[m]
            ELSE /\ nsess' = nsess + 1 /\ open' = open \cup {nsess'}
                 /\ client'.session = nsess' /\ client'.initialized
                 /\ nmon' = nmon + 1
                 /\ client'.session_monitor_task = MonIds[nmon']
                 /\ stack'[MonIds[nmon']] # <<>>]_vars
\* a call made by b on the initialized client, while a is suspended in its
\* own request, has returned: one session, one monitor task
C20_Witness ==
    /\ running = "b" /\ ret["b"].k = "val" /\ At("b", "_send_request", "inited")
    /\ stack["a"] # <<>>
    /\ client.initialized /\ nsess = 1 /\ nmon = 1


(***************************************************************************)
(* Shutdown: caller a makes requests, caller b calls cleanup while a       *)
(* request of a may be in flight; no call is made once cleanup was called. *)
(***************************************************************************)
SpecClose ==
    Init /\ [][
    \/ op["b"].name = "none" /\ call_send_request("a")
    \/ call_cleanup("b")
    \/ RequestSteps \/ RetrySteps \/ CleanupSteps
    \/ MonitorSteps \/ MonitorErrorSteps
    \/ \E d \in TickSteps : Tick(d)
    ]_vars

\* C21: once cleanup has returned, the client holds no session and its
\* monitor is stopped, and no step of an operation that was in flight when
\* cleanup was called creates a session or starts a monitor task.
C21_ClosedStaysClosed ==
    [][(op["b"].name = "cleanup" /\ result["b"].k = "val")
         => /\ nsess' = nsess /\ nmon' = nmon
            /\ client'.session = None
            /\ ~client'.session_monitor_running]_vars


\* C22: when a login made by send_request between two attempts (the
\* re-login after the backoff sleep, or the login of a session recreation)
\* is rejected with an authentication error, send_request goes no further:
\* its next step hands that error to its caller.
C22_AuthErrorSurfaced ==
    [][\A t \in AppTasks :
         (/\ running = t /\ ret[t].k = "exc" /\ ret[t].e = "Auth"
          /\ At(t, "send_request", "relogin") \/ At(t, "send_request", "recreate"))
         => /\ Len(stack'[t]) < Len(stack[t])
            /\ ret'[t].k = "exc" /\ ret'[t].e = "Auth"]_vars


\* C23: a get_test_mode call during which both settings endpoints answered
\* 404 returns False and leaves test mode marked as unsupported.
C23_UnavailableMarksUnsupported ==
    (/\ op["a"].name = "get_test_mode" /\ result["a"].k # "none"
     /\ calls = 1 /\ journal.not_found = 2)
    => /\ result["a"].k = "val" /\ result["a"].v = FALSE
       /\ ~client.test_mode_supported


\* C25: every sleep that send_request takes before it retries after a
\* connection error lasts 1 second after the first attempt and at most 2
\* after the second, whatever 429 answers the call has handled, and so never
\* more than the cap of 30 seconds nor than the rate-limit floor.
C25_GenericBackoffSchedule ==
    \A t \in Tasks :
        At(t, "send_request", "retry_sleep")
        => /\ Top(t).retry_delay \in {RetryDelaySeed, 2 * RetryDelaySeed}
           /\ Top(t).retry_delay <= RetryDelayCap
           /\ Top(t).retry_delay <= RateLimitFloor


\* C26: when the close of the old session in _recreate_session is over,
\* with or without an error, the call goes on: a new session is installed,
\* its age is 0, the tokens and the settings cache are cleared and login is
\* called.
C26_CloseIsBestEffort ==
    [][\A t \in Tasks :
         (/\ Resumable(t) /\ At(t, "_recreate_session", "close")
          /\ stack'[t] # stack[t])
         => /\ nsess' = nsess + 1 /\ nsess' \in open'
            /\ client'.session = nsess' /\ client'.session_age = 0
            /\ client'.token = None /\ client'.oauth_token = None
            /\ ~client'.cms_cache.present
            /\ Len(stack'[t]) > Len(stack[t])
            /\ stack'[t][Len(stack'[t])].proc = "login"]_vars


\* C27: while the client is initialized and was not cleaned up, a session
\* older than the maximum age still has its monitor task, the only one that
\* replaces the session when no request is made: the task has not ended,
\* whatever became of its earlier recreations.
C27_OldSessionHasMonitor ==
    (/\ client.initialized /\ client.session # None
     /\ nmon = 1 /\ op["a"].name # "cleanup"
     /\ client.session_age > SessionMaxAge)
    => stack[client.session_monitor_task] # <<>>

(***************************************************************************)
(* Re-initialization: one caller makes a request, cleans up and makes a    *)
(* request again (the integration is unloaded and set up again on the same *)
(* client object).                                                         *)
(***************************************************************************)
ReinitCalls == 3
ReinitFaults == 5
ReinitTicks == 1
ReinitEvents == 6

InitReinit ==
    /\ client = NewClient
    /\ open = {}
    /\ nsess = 0
    /\ stack = [t \in Tasks |-> <<>>]
    /\ ret = [t \in Tasks |-> NoRet]
    /\ running = "none"
    /\ cancelled = {}
    /\ timer = [t \in Tasks |-> 0]
    /\ op = [t \in AppTasks |-> NoOp]
    /\ result = [t \in AppTasks |-> NoRet]
    /\ journal = NoJournal
    /\ server = Account(TRUE, AllFaults)
    /\ nmon = 0
    /\ calls = 0
    /\ faults = 0
    /\ ticks = 0
    /\ bound = Bound(ReinitCalls, ReinitFaults, ReinitTicks, ReinitEvents)

SpecReinit == InitReinit /\ [][Next]_vars

\* C28: the end of a monitor task that is not the client's current monitor
\* task (a task cancelled by an earlier cleanup) leaves the running flag of
\* the current monitor as it is, so it never stops the new monitor.
C28_OldMonitorLeavesFlag ==
    [][\A m \in MonTasks :
         (/\ stack[m] # <<>> /\ stack'[m] = <<>>
          /\ client.session_monitor_task # m)
         => client'.session_monitor_running = client.session_monitor_running]_vars

(***************************************************************************)
(* connection_diagnostics (client.py 1199-1225): the entry that depends on *)
(* the tokens.                                                             *)
(***************************************************************************)
connection_diagnostics(c) ==
    [authenticated |-> c.token # None \/ c.oauth_token # None]

\* C29: whenever no login is in progress, connection_diagnostics reports
\* authenticated only if the client holds the primary token (_token) that
\* the next request sends; after a failed login it holds none and the
\* report is false.
C29_AuthenticatedHasToken ==
    (\A t \in Tasks : \A i \in 1..Len(stack[t]) : stack[t][i].proc # "login")
    => (connection_diagnostics(client).authenticated => client.token # None)

(***************************************************************************)
(* SmartPolling and PollingStats (models.py 50-77, 113-170).  The object   *)
(* is the frame of task a; durations are in tenths of a second.            *)
(* average_duration is total_duration / update_count after record_update   *)
(* and 0.0 while update_count is 0, so it is compared through the two      *)
(* fields it is computed from.                                             *)
(***************************************************************************)
PollingMin == 15
PollingMax == 120
MaxUpdates == 3
MaxErrors == 7

\* `self.stats.average_duration > x` and `< x`, x in tenths of a second
AverageOver(s, x) == s.update_count > 0 /\ s.total_duration > x * s.update_count
AverageUnder(s, x) == s.update_count = 0 \/ s.total_duration < x * s.update_count

\* the back-off without its upper limit
get_optimal_interval_unlimited(s) ==
    IF s.error_count > 5
    THEN s.base_interval * 2
    ELSE IF AverageOver(s, 50)
    THEN Min(s.base_interval + 15, 120)
    ELSE IF s.error_count = 0 /\ AverageUnder(s, 10)
            /\ Max(s.base_interval - 5, 15) < s.base_interval
    THEN Max(s.base_interval - 5, 15)
    ELSE s.base_interval
\* SmartPolling.get_optimal_interval
get_optimal_interval(s) ==
    IF s.error_count > 5
    THEN Min(s.base_interval * 2, 120)
    ELSE IF AverageOver(s, 50)
    THEN Min(s.base_interval + 15, 120)
    ELSE IF s.error_count = 0 /\ AverageUnder(s, 10)
            /\ Max(s.base_interval - 5, 15) < s.base_interval
    THEN Max(s.base_interval - 5, 15)
    ELSE s.base_interval

\* SmartPolling(base_interval) with the interval of the options form
InitPolling ==
    /\ client = NewClient
    /\ open = {}
    /\ nsess = 0
    /\ \E base_interval \in PollingMin..PollingMax :
         stack = [t \in Tasks |->
                    IF t = "a"
                    THEN <<[proc |-> "SmartPolling", pc |-> "stats",
                            update_count |-> 0, total_duration |-> 0,
                            error_count |-> 0,
                            base_interval |-> base_interval]>>
                    ELSE <<>>]
    /\ ret = [t \in Tasks |-> NoRet]
    /\ running = "none"
    /\ cancelled = {}
    /\ timer = [t \in Tasks |-> 0]
    /\ op = [t \in AppTasks |-> NoOp]
    /\ result = [t \in AppTasks |-> NoRet]
    /\ journal = NoJournal
    /\ server = Account(TRUE, {})
    /\ nmon = 0
    /\ calls = 0
    /\ faults = 0
    /\ ticks = 0
    /\ bound = Bound(MaxCalls, MaxFaults, MaxTicks, MaxEvents)

\* record_update(duration), record_error(), reset_stats() and
\* get_optimal_interval(), called in any order
SpecPolling ==
    InitPolling /\ [][
    \/ \E duration \in {5, 30, 60} :
         /\ Top("a").update_count < MaxUpdates
         /\ stack' = [stack EXCEPT !["a"] =
                <<[Top("a") EXCEPT !.update_count = @ + 1,
                                   !.total_duration = @ + duration]>>]
         /\ UNCHANGED <<client, open, nsess, ret, running, cancelled, timer, op, result,
                        journal, server, nmon, calls, faults, ticks, bound>>
    \/ /\ Top("a").error_count < MaxErrors
       /\ stack' = [stack EXCEPT !["a"] =
              <<[Top("a") EXCEPT !.error_count = @ + 1]>>]
       /\ UNCHANGED <<client, open, nsess, ret, running, cancelled, timer, op, result,
                      journal, server, nmon, calls, faults, ticks, bound>>
    \/ /\ stack' = [stack EXCEPT !["a"] =
              <<[Top("a") EXCEPT !.update_count = 0, !.error_count = 0,
                                 !.total_duration = 0]>>]
       /\ UNCHANGED <<client, open, nsess, ret, running, cancelled, timer, op, result,
                      journal, server, nmon, calls, faults, ticks, bound>>
    \/ /\ result' = [result EXCEPT !["a"] = Val(get_optimal_interval(Top("a")))]
       /\ UNCHANGED <<client, open, nsess, stack, ret, running, cancelled, timer, op,
                      journal, server, nmon, calls, faults, ticks, bound>>
    ]_vars

\* C24: for a base interval of 15 to 120 seconds, every value returned by
\* get_optimal_interval, after any calls of record_update, record_error
\* and reset_stats, is between 15 and 120 seconds inclusive.
C24_IntervalInRange ==
    result["a"].k = "val"
    => /\ result["a"].v >= PollingMin
       /\ result["a"].v <= PollingMax
\* the back-off on errors of a base interval above 60 s was limited
C24_Witness ==
    /\ result["a"].k = "val" /\ result["a"].v = PollingMax
    /\ Top("a").error_count > 5 /\ Top("a").base_interval * 2 > PollingMax

(***************************************************************************)
(* AbodeTestModeSwitch (switch.py 648-779).  The entity is the frame of    *)
(* task a; server.test_mode is the test mode of the account, which the     *)
(* service switches off by itself after 30 minutes.  AbodeSystem           *)
(* .get_test_mode (models.py 198-211) returns False when the call fails    *)
(* and AbodeSystem.set_test_mode (213-221) returns normally when the call  *)
(* fails, so the switch sees no exception of either.                       *)
(***************************************************************************)
InitSwitch ==
    /\ client = NewClient
    /\ open = {}
    /\ nsess = 0
    /\ stack = [t \in Tasks |->
                  IF t = "a"
                  THEN <<[proc |-> "AbodeTestModeSwitch", pc |-> "added",
                          is_on |-> FALSE, user_enabled |-> FALSE,
                          last_state_change |-> "none",
                          should_poll |-> FALSE, initial_sync_done |-> FALSE,
                          previous_state |-> FALSE]>>
                  ELSE <<>>]
    /\ ret = [t \in Tasks |-> NoRet]
    /\ running = "none"
    /\ cancelled = {}
    /\ timer = [t \in Tasks |-> 0]
    /\ op = [t \in AppTasks |-> NoOp]
    /\ result = [t \in AppTasks |-> NoRet]
    /\ journal = NoJournal
    /\ \E test_mode \in BOOLEAN :
         server = [Account(TRUE, {}) EXCEPT !.test_mode = test_mode]
    /\ nmon = 0
    /\ calls = 0
    /\ faults = 0
    /\ ticks = 0
    /\ bound = Bound(MaxCalls, MaxFaults, MaxTicks, MaxEvents)

\* async_added_to_hass, _refresh_test_mode_status (lines 683-716)
refresh_test_mode_status(t) ==
    /\ At(t, "AbodeTestModeSwitch", "added")
    /\ \E fetched \in {server.test_mode, FALSE} :
         stack' = [stack EXCEPT ![t] =
             <<[Top(t) EXCEPT !.pc = "idle", !.is_on = fetched,
                              !.should_poll = TRUE, !.initial_sync_done = TRUE]>>]
    /\ UNCHANGED <<client, open, nsess, ret, running, cancelled, timer, op, result,
                   journal, server, nmon, calls, faults, ticks, bound>>

\* async_update (lines 718-757): up to `await self._data.get_test_mode()`,
\* and from its return on; Home Assistant polls an entity while should_poll
\* is true
async_update(t) ==
    /\ \/ /\ At(t, "AbodeTestModeSwitch", "idle") /\ Top(t).should_poll
          /\ IF Top(t).last_state_change = "recent"
             THEN UNCHANGED stack
             ELSE stack' = [stack EXCEPT ![t] =
                      <<[Top(t) EXCEPT !.pc = "update",
                                       !.previous_state = Top(t).is_on]>>]
       \/ /\ At(t, "AbodeTestModeSwitch", "update")
          /\ \E fetched \in {server.test_mode, FALSE} :
               LET f == Top(t)
                   auto_disabled == f.user_enabled /\ f.previous_state /\ ~fetched
               IN stack' = [stack EXCEPT ![t] =
                      <<[f EXCEPT !.pc = "idle", !.is_on = fetched,
                                  !.user_enabled = IF auto_disabled THEN FALSE ELSE @,
                                  !.should_poll = IF auto_disabled THEN FALSE ELSE @]>>]
    /\ UNCHANGED <<client, open, nsess, ret, running, cancelled, timer, op, result,
                   journal, server, nmon, calls, faults, ticks, bound>>

\* async_turn_on (lines 759-768), called in task u for the entity of task
\* t: up to `await self._data.set_test_mode(True)`, which may fail without
\* an exception, and from its return on
async_turn_on(u, t) ==
    /\ stack[t] # <<>> /\ Top(t).proc = "AbodeTestModeSwitch" /\ Top(t).pc # "added"
    /\ \/ /\ stack[u] = <<>>
          /\ stack' = [stack EXCEPT ![u] = <<Frame("async_turn_on", "set")>>]
          /\ UNCHANGED server
       \/ /\ At(u, "async_turn_on", "set")
          /\ \E applied \in BOOLEAN :
               server' = IF applied THEN [server EXCEPT !.test_mode = TRUE] ELSE server
          /\ stack' = [stack EXCEPT
                 ![u] = <<>>,
                 ![t] = <<[Top(t) EXCEPT !.user_enabled = TRUE, !.is_on = TRUE,
                                         !.last_state_change = "recent"]>>]
    /\ UNCHANGED <<client, open, nsess, ret, running, cancelled, timer, op, result,
                   journal, nmon, calls, faults, ticks, bound>>

\* async_turn_off (lines 770-779)
async_turn_off(u, t) ==
    /\ stack[t] # <<>> /\ Top(t).proc = "AbodeTestModeSwitch" /\ Top(t).pc # "added"
    /\ \/ /\ stack[u] = <<>>
          /\ stack' = [stack EXCEPT ![u] = <<Frame("async_turn_off", "set")>>]
          /\ UNCHANGED server
       \/ /\ At(u, "async_turn_off", "set")
          /\ \E applied \in BOOLEAN :
               server' = IF applied THEN [server EXCEPT !.test_mode = FALSE] ELSE server
          /\ stack' = [stack EXCEPT
                 ![u] = <<>>,
                 ![t] = <<[Top(t) EXCEPT !.user_enabled = FALSE, !.is_on = FALSE,
                                         !.last_state_change = "recent"]>>]
    /\ UNCHANGED <<client, open, nsess, ret, running, cancelled, timer, op, result,
                   journal, nmon, calls, faults, ticks, bound>>

\* the handlers of the entity, the five seconds after a change (line 723)
\* going by, and the service ending the test mode by itself
SpecSwitch ==
    InitSwitch /\ [][
    \/ refresh_test_mode_status("a")
    \/ async_update("a")
    \/ async_turn_on("b", "a") \/ async_turn_off("b", "a")
    \/ /\ Top("a").last_state_change = "recent"
       /\ stack' = [stack EXCEPT !["a"] =
              <<[Top("a") EXCEPT !.last_state_change = "old"]>>]
       /\ UNCHANGED <<client, open, nsess, ret, running, cancelled, timer, op, result,
                      journal, server, nmon, calls, faults, ticks, bound>>
    \/ /\ server.test_mode
       /\ server' = [server EXCEPT !.test_mode = FALSE]
       /\ UNCHANGED <<client, open, nsess, stack, ret, running, cancelled, timer, op,
                      result, journal, nmon, calls, faults, ticks, bound>>
    ]_vars

\* C30: once the initial sync has succeeded, the switch that is on because
\* the user turned it on is polled, whatever turn-on, turn-off and poll
\* operations came before.
C30_UserOnIsPolled ==
    (/\ Top("a").initial_sync_done
     /\ Top("a").is_on /\ Top("a").user_enabled)
    => Top("a").should_poll

====
